---- MODULE Spec2Model ----
(***************************************************************************)
(* The MMO game worker (mmo.js): request handlers that read, modify and    *)
(* write back whole collections kept under fixed keys of a key-value store *)
(* that offers only get and set.  A handler runs in a request slot; every  *)
(* await on the store is a step of its own, so handlers interleave exactly *)
(* at the store calls.  A store call may fail; the helpers swallow that.   *)
(***************************************************************************)
EXTENDS Integers, Sequences, FiniteSets, TLC

\* ---------------------------------------------------------------- constants
MAX_CHAT_HISTORY == 100
MAX_CHAT_DISPLAY == 50
PLAYER_TIMEOUT == 30000
GRID_SIZE == 500
PLAYER_SIZE == 20
MOVE_SPEED == 20
PANE_SIZE == 50

\* ------------------------------------------------------------------- bounds
\* Chat requests accepted for processing in one run of the chat specification.
MaxSends == 3

\* Request slots.  Slot 0 holds the requests of a caller that issues one at a
\* time; slots 1 and 2 hold handlers that overlap each other.  A finished
\* request stays in an observed slot, with its response, until the next one.
Handlers == {0, 1, 2}
Concurrent == {1, 2}
Observed == {0, 2}
\* The instants the clock shows: ages of 0, 1, exactly the timeout and one past
\* the timeout all occur.  Where handlers overlap, the first and the last.
Instants == {0, PLAYER_TIMEOUT, PLAYER_TIMEOUT + 1}
Epochs == {0, PLAYER_TIMEOUT + 1}
Users == {"u1", "u2"}           \* identities the auth lookup resolves
NoUser == "anon"                \* a request that carries no authenticated user

KV_PLAYERS_KEY == "mmo_players"
KV_CHAT_KEY == "mmo_chat_history"
KV_STATS_KEY == "mmo_game_stats"

VARIABLES
    now,        \* Date.now()
    kvPlayers,  \* the value stored under KV_PLAYERS_KEY: identity -> player
    kvChat,     \* the value stored under KV_CHAT_KEY: sequence of messages
    kvStats,    \* the value stored under KV_STATS_KEY
    slot,       \* per request slot: the handler's position, request and locals
    landed,     \* per request slot: the latest players write of another handler
                \* that landed between this handler's read and its write
    sends,      \* chat requests accepted so far
    client      \* the browser client of u1: its gameState and its chat pane

vars == <<now, kvPlayers, kvChat, kvStats, slot, landed, sends, client>>

\* ------------------------------------------------------------------ values
EmptyMap == [i \in {} |-> 0]

MapSet(m, k, v) == [i \in DOMAIN m \cup {k} |-> IF i = k THEN v ELSE m[i]]

\* A delete that is given a key the Map does not hold, and removes nothing.
MapDeleteMissed(m, ks) == m

MapDelete(m, ks) == [i \in DOMAIN m \ ks |-> m[i]]

Min(a, b) == IF a <= b THEN a ELSE b

Max(a, b) == IF a >= b THEN a ELSE b

\* A slice that takes the first n elements, array.slice(0, n).
sliceFirst(q, n) == SubSeq(q, 1, Min(n, Len(q)))

\* array.slice(-n): the last n elements, or all of them when there are fewer.
slice(q, n) == SubSeq(q, Max(1, Len(q) - n + 1), Len(q))

\* A JSON value in the place of a coordinate: a number, kept in halves so that
\* rounding is visible, or something that is not a number.
Num(h) == [num |-> TRUE, half |-> h]

NotNum == [num |-> FALSE, half |-> 0]

\* Math.round: the nearest integer, halves going up.
MathRound(v) == (v.half + 1) \div 2

\* A JSON value in the place of the chat message: a string of `pad` white space
\* characters around `len` others, or something that is not a string.
Str(pad, len) == [pad |-> pad, len |-> len, str |-> TRUE]

NotStr == [pad |-> 0, len |-> 0, str |-> FALSE]

NoBody == [x |-> NotNum, y |-> NotNum, emoji |-> "", message |-> NotStr]

NoMessage == [message |-> 0, id |-> <<0, 0>>, userId |-> NoUser, timestamp |-> 0]

NoStats == [activePlayers |-> 0, totalMessages |-> 0, lastUpdate |-> -1]

NoResp ==
    [totalMessages |-> 0, status |-> 0, removedPlayers |-> 0, playerRemoved |-> FALSE,
     count |-> 0, players |-> EmptyMap, health |-> "", messages |-> <<>>]

Reply(status) == [NoResp EXCEPT !.status = status]

NoReq == [kind |-> "none", user |-> NoUser, fault |-> "none", body |-> NoBody]

\* A slot: pc, the request, the handler's locals (named as in the source), the
\* response, the store calls made for the request, <<op, key, succeeded>>, and
\* whether another append's write landed between the building of chatMessage
\* and the handler's read of the chat history.
Idle ==
    [now |-> 0, players |-> EmptyMap, pc |-> "idle", req |-> NoReq,
     chatHistory |-> <<>>, chatMessage |-> NoMessage, removedCount |-> 0,
     removed |-> FALSE, resp |-> NoResp, log |-> {}, behind |-> FALSE]

\* gameState.playerPosition as the client starts with it.
StartPosition == [x |-> GRID_SIZE \div 2, y |-> GRID_SIZE \div 2]

\* The client before startGame: gameState, and the chat pane, the .message
\* elements of #chatMessages in document order, each with its data-message-id
\* or NoId.
NoId == <<-1, 0>>

StartClient == [playerPosition |-> StartPosition, gameStarted |-> FALSE, pane |-> <<>>]

\* ------------------------------------------------------------------ inputs
OnGrid == [NoBody EXCEPT !.x = Num(21), !.y = Num(40), !.emoji = "E"]

ValidBodies ==
    { OnGrid,
      [NoBody EXCEPT !.x = Num(-3), !.y = Num(1001), !.emoji = "E"] }

InvalidBodies ==
    { [NoBody EXCEPT !.x = NotNum, !.y = Num(40), !.emoji = "E"],
      [NoBody EXCEPT !.x = Num(21), !.y = NotNum, !.emoji = "E"],
      [NoBody EXCEPT !.x = Num(21), !.y = Num(40), !.emoji = ""] }

ChatBodies ==
    { [NoBody EXCEPT !.message = Str(0, 5)],
      [NoBody EXCEPT !.message = Str(2, 250)],
      [NoBody EXCEPT !.message = Str(3, 0)],
      [NoBody EXCEPT !.message = Str(0, 0)],
      NoBody }

\* request.json() or user.puter.auth.getUser() may throw.
Faults == {"none", "json", "getUser"}

\* Math.random(), as far as the model draws it.
RandomDraws == {1, 2}

\* ---------------------------------------------------------------- helpers
IdleSlot(h) == slot[h].pc \in {"idle", "done"}

\* The slot of a handler that returns r: its locals are gone.
Returned(h, s, r) ==
    IF h \in Observed
    THEN [Idle EXCEPT !.pc = "done", !.req = s.req, !.resp = r, !.log = s.log,
                      !.behind = s.behind]
    ELSE Idle

\* The slot of a handler that starts on request r, at its first store call.
Started(r) == [Idle EXCEPT !.pc = "get", !.req = r]

Called(s, op, key, ok) == s.log \cup {<<op, key, ok>>}

\* A getPlayers that reads a key nothing is stored under.
getPlayersWrongKey(ok) == EmptyMap

\* getPlayers: the stored collection, or an empty Map when the get fails.
getPlayers(ok) == IF ok THEN kvPlayers ELSE EmptyMap

\* getChatHistory: the stored sequence, or an empty array when the get fails.
getChatHistory(ok) == IF ok THEN kvChat ELSE <<>>

\* A savePlayers that merges the local Map into the stored collection.
savePlayersMerged(local) ==
    [i \in DOMAIN local \cup DOMAIN kvPlayers |->
       IF i \in DOMAIN local THEN local[i] ELSE kvPlayers[i]]

\* savePlayers, the value the set stores: the whole local Map.
savePlayers(local) == local

\* A write of slot h lands: every other slot that is between its read and its
\* write of the same collection notes it as the latest write it has missed.
NoWrite == [kind |-> "none", user |-> NoUser]

Landing(h, ok) ==
    landed' = [g \in Handlers |->
                 IF g = h
                 THEN IF slot'[h].pc = "idle" THEN NoWrite ELSE landed[h]
                 ELSE IF /\ ok /\ slot[g].pc \in {"modify", "save"}
                         /\ (slot[g].req.kind = "chat") = (slot[h].req.kind = "chat")
                 THEN [kind |-> slot[h].req.kind, user |-> slot[h].req.user]
                 ELSE landed[g]]

\* ------------------------------------------------------------------- Init
Init ==
    /\ now = 0
    /\ kvPlayers = EmptyMap
    /\ kvChat = <<>>
    /\ kvStats = NoStats
    /\ slot = [h \in Handlers |-> Idle]
    /\ landed = [h \in Handlers |-> NoWrite]
    /\ sends = 0
    /\ client = StartClient

\* ------------------------------------------------------------------ clock
Tick(t) ==
    /\ t > now
    /\ now' = t
    /\ UNCHANGED <<kvPlayers, kvChat, kvStats, slot, landed, sends, client>>

\* ------------------------------------- POST /api/player/position (upsert)
ValidPosition(b) == b.x.num /\ b.y.num /\ b.emoji # ""

\* A record whose lastUpdate runs against the clock.
NewPlayerBackdated(u, b, t) ==
    [x |-> MathRound(b.x), y |-> MathRound(b.y), emoji |-> b.emoji, id |-> u,
     lastUpdate |-> 0 - t]

\* The record players.set stores for the caller.
NewPlayer(u, b, t) ==
    [x |-> MathRound(b.x), y |-> MathRound(b.y), emoji |-> b.emoji, id |-> u,
     lastUpdate |-> t]

\* The handler up to its first store call: the authentication check, the body
\* and the identity lookup (either may throw), the validation.
PositionReceived(h, u, b, f) ==
    /\ IdleSlot(h)
    /\ LET r == [kind |-> "position", user |-> u, fault |-> f, body |-> b]
           s == Started(r)
       IN slot' = [slot EXCEPT ![h] =
                     IF u = NoUser THEN Returned(h, s, Reply(401))
                     ELSE IF f # "none" THEN Returned(h, s, Reply(500))
                     ELSE IF ~ValidPosition(b) THEN Returned(h, s, Reply(400))
                     ELSE s]
    /\ landed' = [landed EXCEPT ![h] = NoWrite]
    /\ UNCHANGED <<now, kvPlayers, kvChat, kvStats, sends>>

\* The same for a request that is not a step of the modelled client.
PositionStart(h, u, b, f) == PositionReceived(h, u, b, f) /\ UNCHANGED client

\* await getPlayers(): the get lands at the store.
PositionGet(h, ok) ==
    /\ slot[h].pc = "get" /\ slot[h].req.kind = "position"
    /\ slot' = [slot EXCEPT ![h].players = getPlayers(ok),
                            ![h].log = Called(slot[h], "get", KV_PLAYERS_KEY, ok),
                            ![h].pc = "modify"]
    /\ landed' = [landed EXCEPT ![h] = NoWrite]
    /\ UNCHANGED <<now, kvPlayers, kvChat, kvStats, sends, client>>

\* The handler resumes: players.set(uuid, {..., lastUpdate: Date.now()}), and
\* savePlayers issues the set.
PositionSet(h) ==
    /\ slot[h].pc = "modify" /\ slot[h].req.kind = "position"
    /\ slot' = [slot EXCEPT ![h].players =
                    MapSet(@, slot[h].req.user,
                           NewPlayer(slot[h].req.user, slot[h].req.body, now)),
                            ![h].pc = "save"]
    /\ UNCHANGED <<now, kvPlayers, kvChat, kvStats, landed, sends, client>>

\* The set lands at the store (or fails, which savePlayers swallows), and the
\* handler returns success.
PositionSave(h, ok) ==
    /\ slot[h].pc = "save" /\ slot[h].req.kind = "position"
    /\ kvPlayers' = IF ok THEN savePlayers(slot[h].players) ELSE kvPlayers
    /\ slot' = [slot EXCEPT ![h] =
                  Returned(h, [slot[h] EXCEPT !.log = Called(slot[h], "set", KV_PLAYERS_KEY, ok)],
                           [Reply(200) EXCEPT !.count = Cardinality(DOMAIN slot[h].players)])]
    /\ Landing(h, ok)
    /\ UNCHANGED <<now, kvChat, kvStats, sends, client>>

\* --------------------------------------------- updateGameStats (helper)
\* A stats derivation that only derives: the counts are returned, not stored.
updateGameStatsDerived(s, okP, okC, okS) == kvStats' = kvStats

\* Two gets and one set of the stats key, every failure swallowed.  The three
\* calls touch nothing a read-modify-write of the collections depends on and
\* are taken in one step.
updateGameStats(s, okP, okC, okS) ==
    kvStats' = IF okS
                    THEN [activePlayers |-> Cardinality(DOMAIN getPlayers(okP)),
                          totalMessages |-> Len(getChatHistory(okC)),
                          lastUpdate |-> now]
                    ELSE kvStats

StatsCalled(s, okP, okC, okS) ==
    s.log \cup {<<"get", KV_PLAYERS_KEY, okP>>, <<"get", KV_CHAT_KEY, okC>>,
                <<"set", KV_STATS_KEY, okS>>}

\* ------------------------------------------------ POST /api/cleanup (sweep)
\* The comparison of the sweep, inverted.
StaleInverted(p, t) == t - p.lastUpdate < PLAYER_TIMEOUT

\* The timeout, taken for seconds and converted once more.
StaleSeconds(p, t) == t - p.lastUpdate > PLAYER_TIMEOUT * 1000

Stale(p, t) == t - p.lastUpdate > PLAYER_TIMEOUT

StaleIds(m, t) == {i \in DOMAIN m : Stale(m[i], t)}

\* The handler takes no user: const now = Date.now(), then its first store call.
CleanupStart(h, u) ==
    /\ IdleSlot(h)
    /\ slot' = [slot EXCEPT ![h] =
                  [Started([kind |-> "cleanup", user |-> u, fault |-> "none",
                            body |-> NoBody]) EXCEPT !.now = now]]
    /\ landed' = [landed EXCEPT ![h] = NoWrite]
    /\ UNCHANGED <<now, kvPlayers, kvChat, kvStats, sends, client>>

\* await getPlayers(), then the loop that deletes the inactive players from the
\* local Map and counts them; savePlayers issues the set.
CleanupGet(h, ok) ==
    /\ slot[h].pc = "get" /\ slot[h].req.kind = "cleanup"
    /\ LET snapshot == getPlayers(ok)
           gone == StaleIds(snapshot, slot[h].now)
       IN slot' = [slot EXCEPT ![h].players = MapDelete(snapshot, gone),
                               ![h].removedCount = Cardinality(gone),
                               ![h].log = Called(slot[h], "get", KV_PLAYERS_KEY, ok),
                               ![h].pc = "save"]
    /\ landed' = [landed EXCEPT ![h] = NoWrite]
    /\ UNCHANGED <<now, kvPlayers, kvChat, kvStats, sends, client>>

\* A cleanup that calls savePlayers only when it has removed a player.
CleanupSavesIfRemoved(n) == n > 0

\* Whether cleanup calls savePlayers: always.
CleanupSaves(n) == TRUE

\* The set lands at the store (or fails, swallowed).
CleanupSave(h, ok) ==
    /\ slot[h].pc = "save" /\ slot[h].req.kind = "cleanup"
    /\ IF CleanupSaves(slot[h].removedCount)
         THEN /\ kvPlayers' = IF ok THEN savePlayers(slot[h].players) ELSE kvPlayers
              /\ slot' = [slot EXCEPT ![h].log = Called(slot[h], "set", KV_PLAYERS_KEY, ok),
                                      ![h].pc = "stats"]
              /\ Landing(h, ok)
         ELSE /\ ok
              /\ slot' = [slot EXCEPT ![h].pc = "stats"]
              /\ UNCHANGED <<kvPlayers, landed, client>>
    /\ UNCHANGED <<now, kvChat, kvStats, sends, client>>

\* await updateGameStats(), then the success response.
CleanupStats(h, okP, okC, okS) ==
    /\ slot[h].pc = "stats" /\ slot[h].req.kind = "cleanup"
    /\ updateGameStats(slot[h], okP, okC, okS)
    /\ slot' = [slot EXCEPT ![h] =
                  Returned(h, [slot[h] EXCEPT !.log = StatsCalled(slot[h], okP, okC, okS)],
                           [Reply(200) EXCEPT !.removedPlayers = slot[h].removedCount,
                                              !.count = Cardinality(DOMAIN slot[h].players)])]
    /\ Landing(h, FALSE)
    /\ UNCHANGED <<now, kvPlayers, kvChat, sends, client>>

\* ------------------------------------------ POST /api/player/logout (remove)
LogoutStart(h, u, f) ==
    /\ IdleSlot(h)
    /\ f # "json"
    /\ LET r == [kind |-> "logout", user |-> u, fault |-> f, body |-> NoBody]
           s == Started(r)
       IN slot' = [slot EXCEPT ![h] =
                     IF u = NoUser THEN Returned(h, s, Reply(401))
                     ELSE IF f # "none" THEN Returned(h, s, Reply(500))
                     ELSE s]
    /\ landed' = [landed EXCEPT ![h] = NoWrite]
    /\ UNCHANGED <<now, kvPlayers, kvChat, kvStats, sends, client>>

\* await getPlayers(), then removed = players.delete(uuid); savePlayers issues
\* the set.
LogoutGet(h, ok) ==
    /\ slot[h].pc = "get" /\ slot[h].req.kind = "logout"
    /\ LET snapshot == getPlayers(ok)
       IN slot' = [slot EXCEPT ![h].players = MapDelete(snapshot, {slot[h].req.user}),
                               ![h].removed = slot[h].req.user \in DOMAIN snapshot,
                               ![h].log = Called(slot[h], "get", KV_PLAYERS_KEY, ok),
                               ![h].pc = "save"]
    /\ landed' = [landed EXCEPT ![h] = NoWrite]
    /\ UNCHANGED <<now, kvPlayers, kvChat, kvStats, sends, client>>

LogoutSave(h, ok) ==
    /\ slot[h].pc = "save" /\ slot[h].req.kind = "logout"
    /\ kvPlayers' = IF ok THEN savePlayers(slot[h].players) ELSE kvPlayers
    /\ slot' = [slot EXCEPT ![h].log = Called(slot[h], "set", KV_PLAYERS_KEY, ok),
                            ![h].pc = "stats"]
    /\ Landing(h, ok)
    /\ UNCHANGED <<now, kvChat, kvStats, sends, client>>

LogoutStats(h, okP, okC, okS) ==
    /\ slot[h].pc = "stats" /\ slot[h].req.kind = "logout"
    /\ updateGameStats(slot[h], okP, okC, okS)
    /\ slot' = [slot EXCEPT ![h] =
                  Returned(h, [slot[h] EXCEPT !.log = StatsCalled(slot[h], okP, okC, okS)],
                           [Reply(200) EXCEPT !.playerRemoved = slot[h].removed,
                                              !.count = Cardinality(DOMAIN slot[h].players)])]
    /\ Landing(h, FALSE)
    /\ UNCHANGED <<now, kvPlayers, kvChat, sends, client>>

\* ---------------------------------------------- POST /api/chat (append)
\* A validation that forgets to trim.
ValidMessageUntrimmed(m) == m.str /\ m.len + m.pad > 0

ValidMessage(m) == m.str /\ m.len > 0

\* A sanitizer that trims and does not cut.
SanitizedUncut(m) == m.len

\* message.trim().substring(0, 200), as its length.
Sanitized(m) == Min(m.len, 200)

\* A trim that starts one entry late.
AppendedLate(history, msg) ==
    LET pushed == Append(history, msg)
    IN IF Len(pushed) > MAX_CHAT_HISTORY + 1 THEN Tail(pushed) ELSE pushed

\* A trim that drops the newest entry instead of the oldest.
AppendedPop(history, msg) ==
    LET pushed == Append(history, msg)
    IN IF Len(pushed) > MAX_CHAT_HISTORY
          THEN SubSeq(pushed, 1, MAX_CHAT_HISTORY) ELSE pushed

\* An append that puts the message in front, unshift for push.
AppendedFront(history, msg) ==
    LET pushed == <<msg>> \o history
    IN IF Len(pushed) > MAX_CHAT_HISTORY
          THEN SubSeq(pushed, 1, MAX_CHAT_HISTORY) ELSE pushed

\* push, then one shift when the array has grown past the cap.
Appended(history, msg) ==
    LET pushed == Append(history, msg)
    IN IF Len(pushed) > MAX_CHAT_HISTORY THEN Tail(pushed) ELSE pushed

\* The handler up to its first store call: the authentication check, the body
\* and the identity lookup, the validation, the message object.
ChatStart(h, u, b, f, rnd) ==
    /\ IdleSlot(h)
    /\ LET r == [kind |-> "chat", user |-> u, fault |-> f, body |-> b]
           s == Started(r)
           accepted == u # NoUser /\ f = "none" /\ ValidMessage(b.message)
       IN /\ accepted => sends < MaxSends
          /\ sends' = IF accepted THEN sends + 1 ELSE sends
          /\ slot' = [slot EXCEPT ![h] =
                        IF u = NoUser THEN Returned(h, s, Reply(401))
                        ELSE IF f # "none" THEN Returned(h, s, Reply(500))
                        ELSE IF ~ValidMessage(b.message) THEN Returned(h, s, Reply(400))
                        ELSE [s EXCEPT !.chatMessage =
                                [message |-> Sanitized(b.message), id |-> <<now, rnd>>,
                                 userId |-> u, timestamp |-> now]]]
    /\ landed' = [landed EXCEPT ![h] = NoWrite]
    /\ UNCHANGED <<now, kvPlayers, kvChat, kvStats, client>>

\* await getChatHistory(), then push and shift; saveChatHistory issues the set.
ChatGet(h, ok) ==
    /\ slot[h].pc = "get" /\ slot[h].req.kind = "chat"
    /\ slot' = [slot EXCEPT ![h].chatHistory =
                                Appended(getChatHistory(ok), slot[h].chatMessage),
                            ![h].log = Called(slot[h], "get", KV_CHAT_KEY, ok),
                            ![h].pc = "save"]
    /\ landed' = [landed EXCEPT ![h] = NoWrite]
    /\ UNCHANGED <<now, kvPlayers, kvChat, kvStats, sends, client>>

\* The set lands at the store (or fails, which saveChatHistory swallows), and
\* the handler returns success.
ChatSave(h, ok) ==
    /\ slot[h].pc = "save" /\ slot[h].req.kind = "chat"
    /\ kvChat' = IF ok THEN slot[h].chatHistory ELSE kvChat
    /\ slot' = [g \in Handlers |->
                  IF g = h
                  THEN Returned(h, [slot[h] EXCEPT !.log = Called(slot[h], "set", KV_CHAT_KEY, ok)],
                                [Reply(200) EXCEPT !.count = Len(slot[h].chatHistory)])
                  ELSE IF ok /\ slot[g].req.kind = "chat" /\ slot[g].pc = "get"
                  THEN [slot[g] EXCEPT !.behind = TRUE]
                  ELSE slot[g]]
    /\ Landing(h, ok)
    /\ UNCHANGED <<now, kvPlayers, kvStats, sends, client>>

\* ------------------------------------------ GET /api/players (listActive)
\* The handler takes no user and no body.
PlayersStart(h) ==
    /\ IdleSlot(h)
    /\ slot' = [slot EXCEPT ![h] =
                  Started([kind |-> "players", user |-> NoUser, fault |-> "none",
                           body |-> NoBody])]
    /\ landed' = [landed EXCEPT ![h] = NoWrite]
    /\ UNCHANGED <<now, kvPlayers, kvChat, kvStats, sends, client>>

\* await getPlayers(), then Array.from(players.values()) in the response.
PlayersGet(h, ok) ==
    /\ slot[h].pc = "get" /\ slot[h].req.kind = "players"
    /\ LET players == getPlayers(ok)
       IN slot' = [slot EXCEPT ![h] =
                     Returned(h, [slot[h] EXCEPT !.log = Called(slot[h], "get", KV_PLAYERS_KEY, ok)],
                              [Reply(200) EXCEPT !.players = players,
                                                 !.count = Cardinality(DOMAIN players)])]
    /\ UNCHANGED <<now, kvPlayers, kvChat, kvStats, landed, sends, client>>

\* ------------------------------------------------------ GET /api/chat (tail)
\* The handler takes no user and no body.
ChatListStart(h) ==
    /\ IdleSlot(h)
    /\ slot' = [slot EXCEPT ![h] =
                  Started([kind |-> "chatlist", user |-> NoUser, fault |-> "none",
                           body |-> NoBody])]
    /\ landed' = [landed EXCEPT ![h] = NoWrite]
    /\ UNCHANGED <<now, kvPlayers, kvChat, kvStats, sends, client>>

\* await getChatHistory(), then the last MAX_CHAT_DISPLAY messages and the
\* length of the whole history in the response.
ChatListGet(h, ok) ==
    /\ slot[h].pc = "get" /\ slot[h].req.kind = "chatlist"
    /\ LET chatHistory == getChatHistory(ok)
       IN slot' = [slot EXCEPT ![h] =
                     Returned(h, [slot[h] EXCEPT !.log = Called(slot[h], "get", KV_CHAT_KEY, ok)],
                              [Reply(200) EXCEPT !.messages = slice(chatHistory, MAX_CHAT_DISPLAY),
                                                 !.totalMessages = Len(chatHistory)])]
    /\ UNCHANGED <<now, kvPlayers, kvChat, kvStats, landed, sends, client>>

\* ---------------------------------------------------------- GET /api/stats
StatsStart(h) ==
    /\ IdleSlot(h)
    /\ slot' = [slot EXCEPT ![h] =
                  Started([kind |-> "stats", user |-> NoUser, fault |-> "none",
                           body |-> NoBody])]
    /\ landed' = [landed EXCEPT ![h] = NoWrite]
    /\ UNCHANGED <<now, kvPlayers, kvChat, kvStats, sends, client>>

\* await getPlayers()
StatsGetPlayers(h, ok) ==
    /\ slot[h].pc = "get" /\ slot[h].req.kind = "stats"
    /\ slot' = [slot EXCEPT ![h].players = getPlayers(ok),
                            ![h].log = Called(slot[h], "get", KV_PLAYERS_KEY, ok),
                            ![h].pc = "getChat"]
    /\ UNCHANGED <<now, kvPlayers, kvChat, kvStats, landed, sends, client>>

\* await getChatHistory(), then the counts in the response.
StatsGetChat(h, ok) ==
    /\ slot[h].pc = "getChat" /\ slot[h].req.kind = "stats"
    /\ LET chatHistory == getChatHistory(ok)
       IN slot' = [slot EXCEPT ![h] =
                     Returned(h, [slot[h] EXCEPT !.log = Called(slot[h], "get", KV_CHAT_KEY, ok)],
                              [Reply(200) EXCEPT !.count = Cardinality(DOMAIN slot[h].players),
                                                 !.totalMessages = Len(chatHistory)])]
    /\ UNCHANGED <<now, kvPlayers, kvChat, kvStats, landed, sends, client>>

\* ------------------------------------------------------------- GET /health
HealthStart(h) ==
    /\ IdleSlot(h)
    /\ slot' = [slot EXCEPT ![h] =
                  Started([kind |-> "health", user |-> NoUser, fault |-> "none",
                           body |-> NoBody])]
    /\ landed' = [landed EXCEPT ![h] = NoWrite]
    /\ UNCHANGED <<now, kvPlayers, kvChat, kvStats, sends, client>>

\* await getPlayers()
HealthGetPlayers(h, ok) ==
    /\ slot[h].pc = "get" /\ slot[h].req.kind = "health"
    /\ slot' = [slot EXCEPT ![h].players = getPlayers(ok),
                            ![h].log = Called(slot[h], "get", KV_PLAYERS_KEY, ok),
                            ![h].pc = "getChat"]
    /\ UNCHANGED <<now, kvPlayers, kvChat, kvStats, landed, sends, client>>

\* await getChatHistory(), then the response with status 'ok': neither helper
\* throws, so the catch block that answers status 'error' is never entered.
HealthGetChat(h, ok) ==
    /\ slot[h].pc = "getChat" /\ slot[h].req.kind = "health"
    /\ slot' = [slot EXCEPT ![h] =
                  Returned(h, [slot[h] EXCEPT !.log = Called(slot[h], "get", KV_CHAT_KEY, ok)],
                           [Reply(200) EXCEPT !.health = "ok",
                                              !.count = Cardinality(DOMAIN slot[h].players)])]
    /\ UNCHANGED <<now, kvPlayers, kvChat, kvStats, landed, sends, client>>

\* ------------------------------------------- the player registry's behaviour
\* Overlapping handlers: slot 1 runs any registry request, slot 2 runs upserts,
\* so every pair of overlapping handlers of which one is an upsert occurs,
\* under every interleaving of their store calls.
Next ==
    \/ \E t \in Epochs : Tick(t)
    \/ \E h \in Concurrent, u \in Users : PositionStart(h, u, OnGrid, "none")
    \/ \E h \in Concurrent, ok \in BOOLEAN : PositionGet(h, ok)
    \/ \E h \in Concurrent : PositionSet(h)
    \/ \E h \in Concurrent, ok \in BOOLEAN : PositionSave(h, ok)
    \/ CleanupStart(1, NoUser)
    \/ \E ok \in BOOLEAN : CleanupGet(1, ok)
    \/ \E ok \in BOOLEAN : CleanupSave(1, ok)
    \/ \E okP, okC, okS \in BOOLEAN : CleanupStats(1, okP, okC, okS)
    \/ \E u \in Users : LogoutStart(1, u, "none")
    \/ \E ok \in BOOLEAN : LogoutGet(1, ok)
    \/ \E ok \in BOOLEAN : LogoutSave(1, ok)
    \/ \E okP, okC, okS \in BOOLEAN : LogoutStats(1, okP, okC, okS)

Spec == Init /\ [][Next]_vars

\* ------------------------------------------------- one caller at a time
\* Slot 0 alone: requests of every shape, one after the other, each response
\* looked at.
Callers == Users \cup {NoUser}

PositionRequests ==
    {<<NoUser, OnGrid, "none">>, <<"u1", OnGrid, "json">>, <<"u1", OnGrid, "getUser">>}
    \cup {<<"u1", b, "none">> : b \in InvalidBodies}
    \cup {<<u, b, "none">> : u \in Users, b \in ValidBodies}

LogoutRequests ==
    {<<NoUser, "none">>, <<"u1", "getUser">>} \cup {<<u, "none">> : u \in Users}

NextGate ==
    \/ \E t \in Instants : Tick(t)
    \/ \E r \in PositionRequests : PositionStart(0, r[1], r[2], r[3])
    \/ \E ok \in BOOLEAN : PositionGet(0, ok)
    \/ PositionSet(0)
    \/ \E ok \in BOOLEAN : PositionSave(0, ok)
    \/ \E u \in Callers : CleanupStart(0, u)
    \/ \E ok \in BOOLEAN : CleanupGet(0, ok)
    \/ \E ok \in BOOLEAN : CleanupSave(0, ok)
    \/ \E okP, okC, okS \in BOOLEAN : CleanupStats(0, okP, okC, okS)
    \/ \E r \in LogoutRequests : LogoutStart(0, r[1], r[2])
    \/ \E ok \in BOOLEAN : LogoutGet(0, ok)
    \/ \E ok \in BOOLEAN : LogoutSave(0, ok)
    \/ \E okP, okC, okS \in BOOLEAN : LogoutStats(0, okP, okC, okS)

SpecGate == Init /\ [][NextGate]_vars

\* ------------------------------------------------------ the chat log's behaviour
\* The log as sequential appends of one user at the first instant leave it:
\* message i of n carries the random draw 100 + i.
Filled(n) ==
    [i \in 1..n |-> [message |-> 5, id |-> <<0, 100 + i>>, userId |-> "u1",
                     timestamp |-> 0]]

\* The chat log is empty, or one short of its cap.
InitChat ==
    /\ now = 0
    /\ kvPlayers = EmptyMap
    /\ kvChat \in {Filled(0), Filled(MAX_CHAT_HISTORY - 1)}
    /\ kvStats = NoStats
    /\ slot = [h \in Handlers |-> Idle]
    /\ landed = [h \in Handlers |-> NoWrite]
    /\ sends = 0
    /\ client = StartClient

NextChat ==
    \/ \E t \in Epochs : Tick(t)
    \/ \E h \in Concurrent, rnd \in RandomDraws :
          ChatStart(h, "u1", [NoBody EXCEPT !.message = Str(0, 5)], "none", rnd)
    \/ \E h \in Concurrent, ok \in BOOLEAN : ChatGet(h, ok)
    \/ \E h \in Concurrent, ok \in BOOLEAN : ChatSave(h, ok)

SpecChat == InitChat /\ [][NextChat]_vars

\* -------------------------------------------- one caller, upserts and reads
\* The client's starting position: whole numbers, the centre of the grid.
Centre == [NoBody EXCEPT !.x = Num(GRID_SIZE), !.y = Num(GRID_SIZE), !.emoji = "E"]

\* The chat log is empty, short, as long as one GET /api/chat shows, or full.
InitRead ==
    /\ now = 0
    /\ kvPlayers = EmptyMap
    /\ kvChat \in {Filled(0), Filled(MaxSends), Filled(MAX_CHAT_DISPLAY),
                   Filled(MAX_CHAT_HISTORY)}
    /\ kvStats = NoStats
    /\ slot = [h \in Handlers |-> Idle]
    /\ landed = [h \in Handlers |-> NoWrite]
    /\ sends = 0
    /\ client = StartClient

\* Slot 0 alone: upserts of whole and fractional positions, each response
\* looked at, the reads GET /api/players, GET /api/chat, GET /api/stats and
\* GET /health between them, and sweeps, which call updateGameStats.
NextRead ==
    \/ \E t \in Epochs : Tick(t)
    \/ \E u \in Users, b \in ValidBodies \cup {Centre} : PositionStart(0, u, b, "none")
    \/ \E ok \in BOOLEAN : PositionGet(0, ok)
    \/ PositionSet(0)
    \/ \E ok \in BOOLEAN : PositionSave(0, ok)
    \/ PlayersStart(0)
    \/ \E ok \in BOOLEAN : PlayersGet(0, ok)
    \/ HealthStart(0)
    \/ \E ok \in BOOLEAN : HealthGetPlayers(0, ok)
    \/ \E ok \in BOOLEAN : HealthGetChat(0, ok)
    \/ ChatListStart(0)
    \/ \E ok \in BOOLEAN : ChatListGet(0, ok)
    \/ StatsStart(0)
    \/ \E ok \in BOOLEAN : StatsGetPlayers(0, ok)
    \/ \E ok \in BOOLEAN : StatsGetChat(0, ok)
    \/ CleanupStart(0, NoUser)
    \/ \E ok \in BOOLEAN : CleanupGet(0, ok)
    \/ \E ok \in BOOLEAN : CleanupSave(0, ok)
    \/ \E okP, okC, okS \in BOOLEAN : CleanupStats(0, okP, okC, okS)

SpecRead == InitRead /\ [][NextRead]_vars

\* ---------------------------------------------- one caller, chat requests
ChatRequests ==
    {<<NoUser, [NoBody EXCEPT !.message = Str(0, 5)], "none">>,
     <<"u1", [NoBody EXCEPT !.message = Str(0, 5)], "json">>,
     <<"u1", [NoBody EXCEPT !.message = Str(0, 5)], "getUser">>}
    \cup {<<"u1", b, "none">> : b \in ChatBodies}

\* Slot 0 alone: chat requests of every shape, one after the other, on a log
\* that is empty or one short of its cap; and upserts, valid and invalid.
NextSeq ==
    \/ \E t \in Epochs : Tick(t)
    \/ \E r \in ChatRequests, rnd \in RandomDraws : ChatStart(0, r[1], r[2], r[3], rnd)
    \/ \E ok \in BOOLEAN : ChatGet(0, ok)
    \/ \E ok \in BOOLEAN : ChatSave(0, ok)
    \/ \E b \in InvalidBodies \cup {OnGrid} : PositionStart(0, "u1", b, "none")
    \/ \E ok \in BOOLEAN : PositionGet(0, ok)
    \/ PositionSet(0)
    \/ \E ok \in BOOLEAN : PositionSave(0, ok)

SpecSeq == InitChat /\ [][NextSeq]_vars

\* ------------------------------------------- sweeps that keep being run
\* Slot 1 runs the sweeps the clients' 30 second timers request, slot 2 the
\* upserts: of u2 at any time, of u1 only at the first instant, after which u1
\* sends nothing more and no handler stamps a record for it.
NextLive ==
    \/ \E t \in Epochs : Tick(t)
    \/ \E u \in Users : (u = "u1" => now = 0) /\ PositionStart(2, u, OnGrid, "none")
    \/ \E ok \in BOOLEAN : PositionGet(2, ok)
    \/ (slot[2].req.user = "u1" => now = 0) /\ PositionSet(2)
    \/ \E ok \in BOOLEAN : PositionSave(2, ok)
    \/ CleanupStart(1, NoUser)
    \/ \E ok \in BOOLEAN : CleanupGet(1, ok)
    \/ \E ok \in BOOLEAN : CleanupSave(1, ok)
    \/ \E okP, okC, okS \in BOOLEAN : CleanupStats(1, okP, okC, okS)

\* The timer fires again and again, every store call of a sweep is answered,
\* and the set on the players key does not fail for ever.
SweepFairness ==
    /\ WF_vars(CleanupStart(1, NoUser))
    /\ WF_vars(\E ok \in BOOLEAN : CleanupGet(1, ok))
    /\ SF_vars(CleanupSave(1, TRUE))
    /\ WF_vars(\E okP, okC, okS \in BOOLEAN : CleanupStats(1, okP, okC, okS))

SpecLive == Init /\ [][NextLive]_vars /\ SweepFairness

\* --------------------------------------------------------- the browser client
Keys == {"ArrowUp", "ArrowDown", "ArrowLeft", "ArrowRight", "a"}

\* A move that steps without looking at the edge of the grid.
MovedUnclamped(p, key) ==
    CASE key = "ArrowUp" -> [p EXCEPT !.y = p.y - MOVE_SPEED]
      [] key = "ArrowDown" -> [p EXCEPT !.y = p.y + MOVE_SPEED]
      [] key = "ArrowLeft" -> [p EXCEPT !.x = p.x - MOVE_SPEED]
      [] key = "ArrowRight" -> [p EXCEPT !.x = p.x + MOVE_SPEED]
      [] OTHER -> p

\* handleKeyPress: the position one key press away from p, kept on the grid.
Moved(p, key) ==
    CASE key = "ArrowUp" -> [p EXCEPT !.y = Max(PLAYER_SIZE \div 2, p.y - MOVE_SPEED)]
      [] key = "ArrowDown" -> [p EXCEPT !.y = Min(GRID_SIZE - PLAYER_SIZE \div 2, p.y + MOVE_SPEED)]
      [] key = "ArrowLeft" -> [p EXCEPT !.x = Max(PLAYER_SIZE \div 2, p.x - MOVE_SPEED)]
      [] key = "ArrowRight" -> [p EXCEPT !.x = Min(GRID_SIZE - PLAYER_SIZE \div 2, p.x + MOVE_SPEED)]
      [] OTHER -> p

\* addChatMessage: the element is appended, then the first .message element
\* is removed when there are more than PANE_SIZE of them.
addChatMessage(pane, messageId) ==
    LET appended == Append(pane, messageId)
    IN IF Len(appended) > PANE_SIZE THEN Tail(appended) ELSE appended

\* startGame, its last statements: gameStarted is set and the pane gets the
\* system message 'Game started!'.
startGame ==
    /\ ~client.gameStarted
    /\ client' = [client EXCEPT !.gameStarted = TRUE,
                                !.pane = addChatMessage(@, NoId)]
    /\ UNCHANGED <<now, kvPlayers, kvChat, kvStats, slot, landed, sends>>

\* updatePlayerPosition: the POST with the client's position reaches the worker
\* and a handler starts on it in slot h.  Nothing in it looks at an earlier
\* call that has not resolved.
updatePlayerPosition(h, u, p) ==
    PositionReceived(h, u, [NoBody EXCEPT !.x = Num(2 * p.x), !.y = Num(2 * p.y),
                                          !.emoji = "E"], "none")

\* handleKeyPress: nothing before the game has started and nothing for a key
\* that is not an arrow; else the move, then updatePlayerPosition(), not
\* awaited.
handleKeyPress(h, u, key) ==
    IF client.gameStarted /\ key \in {"ArrowUp", "ArrowDown", "ArrowLeft", "ArrowRight"}
    THEN /\ client' = [client EXCEPT !.playerPosition = Moved(@, key)]
         /\ updatePlayerPosition(h, u, client'.playerPosition)
    ELSE UNCHANGED vars

\* How far from the centre, in key presses along x, the client of the
\* overlapping requests goes.
MaxStray == 1

NearCentre(p) ==
    /\ p.y = StartPosition.y
    /\ p.x - StartPosition.x \in (0 - MaxStray * MOVE_SPEED)..(MaxStray * MOVE_SPEED)

\* The client of u1 pressing keys, the worker handling what it sends.
NextClient ==
    \/ \E t \in Epochs : Tick(t)
    \/ startGame
    \/ \E h \in Concurrent, key \in Keys :
          NearCentre(Moved(client.playerPosition, key)) /\ handleKeyPress(h, "u1", key)
    \/ \E h \in Concurrent, ok \in BOOLEAN : PositionGet(h, ok)
    \/ \E h \in Concurrent : PositionSet(h)
    \/ \E h \in Concurrent, ok \in BOOLEAN : PositionSave(h, ok)

SpecClient == Init /\ [][NextClient]_vars

\* The client of u1 pressing any key anywhere on the grid, one request of it
\* at the worker at a time, the store's set succeeding.
NextKeys ==
    \/ startGame
    \/ \E key \in Keys : handleKeyPress(1, "u1", key)
    \/ \E ok \in BOOLEAN : PositionGet(1, ok)
    \/ PositionSet(1)
    \/ PositionSave(1, TRUE)

SpecKeys == Init /\ [][NextKeys]_vars

\* ------------------------------------------------------ the client's chat pane
\* sendChatMessage: the POST reaches the worker, which starts on it in slot h
\* with the random draw rnd; or puter.workers.exec rejects, and the catch block
\* adds the system message 'Failed to send message'.
sendChatMessage(h, rnd, delivered) ==
    IF delivered
    THEN ChatStart(h, "u1", [NoBody EXCEPT !.message = Str(0, 5)], "none", rnd)
    ELSE /\ client' = [client EXCEPT !.pane = addChatMessage(@, NoId)]
         /\ UNCHANGED <<now, kvPlayers, kvChat, kvStats, slot, landed, sends>>

\* fetchChatMessages up to its await: the timer of startGameLoop calls it once
\* the game has started, and the GET reaches the worker.
fetchChatMessages(h) == client.gameStarted /\ ChatListStart(h)

\* data.messages.forEach: a message is added unless an element of the pane
\* carries its id.
RECURSIVE Shown(_, _)
Shown(pane, messages) ==
    IF messages = <<>> THEN pane
    ELSE LET msg == Head(messages)
             present == \E i \in 1..Len(pane) : pane[i] = msg.id
         IN Shown(IF present THEN pane ELSE addChatMessage(pane, msg.id),
                  Tail(messages))

\* fetchChatMessages after its await: the response is read and shown.
fetchChatMessagesResolved(h) ==
    /\ slot[h].pc = "done" /\ slot[h].req.kind = "chatlist"
    /\ client' = [client EXCEPT !.pane = Shown(@, slot[h].resp.messages)]
    /\ slot' = [slot EXCEPT ![h] = Idle]
    /\ UNCHANGED <<now, kvPlayers, kvChat, kvStats, landed, sends>>

\* How many of the client's messages reach the worker.
MaxPosted == 2

\* One client: it starts the game, sends messages, of which the n-th carries
\* the draw n, and polls; slot 0 holds the request it waits for.
NextPane ==
    \/ startGame
    \/ sends < MaxPosted /\ sendChatMessage(0, sends + 1, TRUE)
    \/ sendChatMessage(0, sends + 1, FALSE)
    \/ \E ok \in BOOLEAN : ChatGet(0, ok)
    \/ \E ok \in BOOLEAN : ChatSave(0, ok)
    \/ fetchChatMessages(0)
    \/ \E ok \in BOOLEAN : ChatListGet(0, ok)
    \/ fetchChatMessagesResolved(0)

SpecPane == Init /\ [][NextPane]_vars

\* ================================================================ properties
\* Slot h's pending set on the players key is resolved in this step.
SaveStep(h) == slot[h].pc = "save" /\ slot'[h].pc # "save"

GetOk == <<"get", KV_PLAYERS_KEY, TRUE>>
GetFailed == <<"get", KV_PLAYERS_KEY, FALSE>>
SetOk == <<"set", KV_PLAYERS_KEY, TRUE>>

\* Identity a's stored record is gone or different after this step.
Discarded(a) == a \notin DOMAIN kvPlayers' \/ kvPlayers'[a] # kvPlayers[a]

\* ----------------------------------------------------------------------- C1
\* C1: under any interleaving of chat handlers, the sequence stored under the
\* chat key never holds more than MAX_CHAT_HISTORY entries.
ChatBounded == Len(kvChat) <= MAX_CHAT_HISTORY

\* The log is at its cap and its oldest message has been dropped from the front.
ChatBoundedWitness ==
    /\ Len(kvChat) = MAX_CHAT_HISTORY
    /\ kvChat[1] = Filled(2)[2]
    /\ kvChat[MAX_CHAT_HISTORY].id[2] \in RandomDraws

\* ----------------------------------------------------------------------- C2
\* C2: when an upsert's write lands after another identity's upsert has written
\* between this upsert's read and its write, the stored collection holds this
\* upsert's record, and the other identity's update is no longer stored (unless
\* the record it wrote is the very record this upsert had read).
LostUpdate ==
    [][\A h \in Concurrent :
         ( /\ SaveStep(h) /\ slot[h].req.kind = "position"
           /\ landed[h].kind = "position" /\ landed[h].user # slot[h].req.user
           /\ kvPlayers' # kvPlayers )
         => LET a == landed[h].user
                b == slot[h].req.user
            IN /\ b \in DOMAIN kvPlayers'
               /\ kvPlayers'[b] = slot[h].players[b]
               /\ (a \in DOMAIN kvPlayers /\ ~Discarded(a))
                     => (a \in DOMAIN slot[h].players
                         /\ slot[h].players[a] = kvPlayers[a])]_vars

\* Both upserts have read and written with success; the later writer's record
\* is stored, the other identity's is not.
LostUpdateWitness ==
    /\ slot[2].pc = "done" /\ slot[2].req.kind = "position"
    /\ {GetOk, SetOk} \subseteq slot[2].log
    /\ landed[2].kind = "position" /\ landed[2].user # slot[2].req.user
    /\ slot[2].req.user \in DOMAIN kvPlayers
    /\ landed[2].user \notin DOMAIN kvPlayers

\* ----------------------------------------------------------------------- C3
\* C3: a request of a mutating operation that carries no authenticated user
\* makes no get and no set on the store, and is answered 401.
UnauthenticatedTouchesNothing ==
    \A h \in Handlers :
       (slot[h].req.kind \in {"position", "cleanup", "logout", "chat"}
        /\ slot[h].req.user = NoUser)
       => /\ slot[h].log = {}
          /\ slot[h].pc = "done" => slot[h].resp.status = 401

\* ----------------------------------------------------------------------- C4
\* C4: a handler of a mutating operation during which a store call failed does
\* not answer with success: its response is 500.
FailureSurfaced ==
    \A h \in Handlers :
       (slot[h].pc = "done" /\ \E c \in slot[h].log : c[3] = FALSE)
       => slot[h].resp.status = 500

\* ----------------------------------------------------------------------- C5
\* C5: with no other operation in progress, the sweep leaves in the store
\* exactly the entries that are not older than the timeout at its instant, each
\* unchanged, and the count it reports is the number of entries it removed.
SweepExact ==
    [][(SaveStep(0) /\ slot[0].req.kind = "cleanup")
       => /\ kvPlayers' =
               MapDelete(kvPlayers,
                         {i \in DOMAIN kvPlayers :
                            slot[0].now - kvPlayers[i].lastUpdate > PLAYER_TIMEOUT})
          /\ slot[0].removedCount =
               Cardinality(DOMAIN kvPlayers) - Cardinality(DOMAIN kvPlayers')]_vars

\* ----------------------------------------------------------------------- C6
\* C6 (as stated): the stored lastUpdate of an identity never decreases from
\* one stored value to the next, whatever the interleaving of handlers.
LastUpdateNeverDecreases ==
    [][\A i \in DOMAIN kvPlayers \cap DOMAIN kvPlayers' :
         kvPlayers'[i].lastUpdate >= kvPlayers[i].lastUpdate]_vars

\* C6 (amended): the stored lastUpdate of an identity does not decrease across
\* the write of a handler that no other write has overtaken between its read
\* and its write.
LastUpdateNeverDecreasesUnlessOvertaken ==
    [][\A h \in Concurrent :
         (SaveStep(h) /\ landed[h] = NoWrite)
         => \A i \in DOMAIN kvPlayers \cap DOMAIN kvPlayers' :
              kvPlayers'[i].lastUpdate >= kvPlayers[i].lastUpdate]_vars

\* An upsert that nothing overtook has stored a later lastUpdate for its
\* identity, next to an older record it has read and written back.
LastUpdateWitness ==
    /\ slot[2].pc = "done" /\ slot[2].req.kind = "position"
    /\ {GetOk, SetOk} \subseteq slot[2].log
    /\ landed[2] = NoWrite
    /\ slot[2].req.user \in DOMAIN kvPlayers
    /\ kvPlayers[slot[2].req.user].lastUpdate = PLAYER_TIMEOUT + 1
    /\ \E a \in DOMAIN kvPlayers : kvPlayers[a].lastUpdate = 0

\* ----------------------------------------------------------------------- C7
\* C7 (as stated): the write of a sweep whose read succeeded never drops or
\* changes a stored record that is fresh at the sweep's instant.
SweepKeepsFresh ==
    [][(SaveStep(1) /\ slot[1].req.kind = "cleanup" /\ GetOk \in slot[1].log)
       => \A a \in DOMAIN kvPlayers :
            slot[1].now - kvPlayers[a].lastUpdate <= PLAYER_TIMEOUT
            => ~Discarded(a)]_vars

\* C7 (amended): a sweep's write stores only records that are not stale at the
\* sweep's instant, and it drops or changes a stored record that is fresh at
\* that instant only if another write landed between the sweep's read and its
\* write, or the sweep's read failed.
SweepDropsFreshOnlyIfOvertaken ==
    [][(SaveStep(1) /\ slot[1].req.kind = "cleanup" /\ kvPlayers' # kvPlayers)
       => /\ \A a \in DOMAIN kvPlayers' :
               slot[1].now - kvPlayers'[a].lastUpdate <= PLAYER_TIMEOUT
          /\ \A a \in DOMAIN kvPlayers :
               (slot[1].now - kvPlayers[a].lastUpdate <= PLAYER_TIMEOUT
                /\ Discarded(a))
               => (landed[1] # NoWrite \/ GetFailed \in slot[1].log)]_vars

\* The sweep's write has landed after an upsert's, which landed after the
\* sweep's read: the record the upsert stored, fresh, is gone.
SweepDropsFreshWitness ==
    /\ now = 0
    /\ slot[1].pc = "stats" /\ slot[1].req.kind = "cleanup"
    /\ {GetOk, SetOk} \subseteq slot[1].log
    /\ landed[1].kind = "position"
    /\ slot[2].pc = "done" /\ slot[2].req.user = landed[1].user
    /\ SetOk \in slot[2].log
    /\ landed[1].user \notin DOMAIN kvPlayers

\* ----------------------------------------------------------------------- C8
\* C8 (as stated): an upsert whose read succeeded discards the stored update of
\* another identity only if that update's write did not land after this
\* upsert's read.
UpsertDiscardsOnlyEarlierWrite ==
    [][\A h \in Concurrent :
         (SaveStep(h) /\ slot[h].req.kind = "position" /\ GetOk \in slot[h].log)
         => \A a \in DOMAIN kvPlayers \ {slot[h].req.user} :
              Discarded(a)
              => ~(landed[h].kind = "position" /\ landed[h].user = a)]_vars

\* C8 (amended): an upsert discards the stored update of another identity only
\* if a write landed after this upsert's read and before its write, or this
\* upsert's read failed.
UpsertDiscardsOnlyMissedWrite ==
    [][\A h \in Concurrent :
         (SaveStep(h) /\ slot[h].req.kind = "position")
         => \A a \in DOMAIN kvPlayers \ {slot[h].req.user} :
              Discarded(a)
              => (landed[h] # NoWrite \/ GetFailed \in slot[h].log)]_vars

\* Another identity's update has landed after this upsert's read, which holds
\* that identity's older record, and this upsert's set is on its way.
UpsertDiscardsWitness ==
    /\ slot[2].pc = "save" /\ slot[2].req.kind = "position"
    /\ GetOk \in slot[2].log
    /\ landed[2].kind = "position" /\ landed[2].user # slot[2].req.user
    /\ landed[2].user \in DOMAIN slot[2].players \cap DOMAIN kvPlayers
    /\ kvPlayers[landed[2].user].lastUpdate
          > slot[2].players[landed[2].user].lastUpdate

\* ----------------------------------------------------------------------- C9
\* C9 (as stated): a sweep that removed no entry makes no set on the players
\* key.
SweepWritesOnlyIfRemoved ==
    \A h \in Handlers :
       (slot[h].req.kind = "cleanup" /\ slot[h].pc = "done"
        /\ slot[h].resp.removedPlayers = 0)
       => \A ok \in BOOLEAN : <<"set", KV_PLAYERS_KEY, ok>> \notin slot[h].log

\* C9 (amended): every sweep makes a set on the players key, whether or not
\* it removed an entry.
SweepAlwaysWrites ==
    \A h \in Handlers :
       (slot[h].req.kind = "cleanup" /\ slot[h].pc \in {"stats", "done"})
       => \E ok \in BOOLEAN : <<"set", KV_PLAYERS_KEY, ok>> \in slot[h].log

\* A sweep that removed nothing has returned, its set on the players key made.
SweepAlwaysWritesWitness ==
    /\ slot[0].req.kind = "cleanup" /\ slot[0].pc = "done"
    /\ slot[0].resp.removedPlayers = 0
    /\ {GetOk, SetOk} \subseteq slot[0].log
    /\ kvPlayers # EmptyMap

\* ---------------------------------------------------------------------- C10
\* C10: every stored player record has integer x and y within [0, GRID_SIZE].
PositionsOnGrid ==
    \A i \in DOMAIN kvPlayers :
       kvPlayers[i].x \in 0..GRID_SIZE /\ kvPlayers[i].y \in 0..GRID_SIZE

\* ---------------------------------------------------------------------- C11
\* A coordinate sent as a whole number.
Whole(v) == v.half % 2 = 0

\* C11: with no other operation in progress, an upsert stores the caller's
\* record with exactly the position sent (a whole-number position) and leaves
\* every stored record of another identity as it was, and the listing that
\* follows returns the stored collection, one entry per identity.
UpsertThenList ==
    [][/\ (SaveStep(0) /\ slot[0].req.kind = "position")
          => LET u == slot[0].req.user
                 b == slot[0].req.body
             IN /\ DOMAIN kvPlayers' = DOMAIN kvPlayers \cup {u}
                /\ kvPlayers'[u].id = u
                /\ Whole(b.x) => 2 * kvPlayers'[u].x = b.x.half
                /\ Whole(b.y) => 2 * kvPlayers'[u].y = b.y.half
                /\ \A a \in DOMAIN kvPlayers \ {u} : kvPlayers'[a] = kvPlayers[a]
       /\ (slot[0].pc = "get" /\ slot[0].req.kind = "players" /\ slot'[0].pc = "done")
          => slot'[0].resp.players = kvPlayers]_vars

\* ---------------------------------------------------------------------- C12
\* The last n entries of a sequence.
LastN(q, n) == IF Len(q) > n THEN SubSeq(q, Len(q) - n + 1, Len(q)) ELSE q

\* C12: with appends made one after the other, each append leaves in the store
\* the last MAX_CHAT_HISTORY of the messages appended so far, in the order of
\* their appending: the stored sequence followed by the new message, cut to
\* its last MAX_CHAT_HISTORY entries.
SequentialTail ==
    [][(SaveStep(0) /\ slot[0].req.kind = "chat")
       => kvChat' = LastN(Append(kvChat, slot[0].chatMessage), MAX_CHAT_HISTORY)]_vars

\* ---------------------------------------------------------------------- C13
ChatGetOk == <<"get", KV_CHAT_KEY, TRUE>>
ChatSetOk == <<"set", KV_CHAT_KEY, TRUE>>

\* C13 (as stated): whatever the interleaving, the write of an append whose
\* read succeeded keeps the stored messages in order at the front of the new
\* sequence, except the oldest ones, which leave only when the stored sequence
\* was at the cap and the new one is.
OldestFirstOnly ==
    [][\A h \in Concurrent :
         (SaveStep(h) /\ slot[h].req.kind = "chat" /\ ChatGetOk \in slot[h].log
          /\ kvChat' # kvChat)
         => \E k \in 0..Len(kvChat) :
              /\ Len(kvChat') >= Len(kvChat) - k
              /\ SubSeq(kvChat', 1, Len(kvChat) - k)
                   = SubSeq(kvChat, k + 1, Len(kvChat))
              /\ k > 0 => /\ Len(kvChat) = MAX_CHAT_HISTORY
                          /\ Len(kvChat') = MAX_CHAT_HISTORY]_vars

\* C13 (amended): an append whose read and write succeed, and which no other
\* append's write has overtaken between the two, leaves in the store the
\* sequence that was stored, followed by its message, less the oldest message
\* when that makes more than MAX_CHAT_HISTORY.
OldestFirstUnlessOvertaken ==
    [][(/\ SaveStep(2) /\ slot[2].req.kind = "chat"
        /\ landed[2] = NoWrite
        /\ ChatGetOk \in slot[2].log /\ ChatSetOk \in slot'[2].log)
       => kvChat' = LastN(Append(kvChat, slot[2].chatMessage), MAX_CHAT_HISTORY)]_vars

\* An append that nothing overtook has returned: the log is at its cap, its
\* oldest message gone, the others in their order before the two new ones.
OldestFirstWitness ==
    /\ slot[2].pc = "done" /\ slot[2].req.kind = "chat"
    /\ {ChatGetOk, ChatSetOk} \subseteq slot[2].log
    /\ landed[2] = NoWrite
    /\ Len(kvChat) = MAX_CHAT_HISTORY
    /\ kvChat[1] = Filled(2)[2]
    /\ kvChat[MAX_CHAT_HISTORY - 2] = Filled(MAX_CHAT_HISTORY - 1)[MAX_CHAT_HISTORY - 1]

\* ---------------------------------------------------------------------- C14
\* C14: with no other operation in progress, a remove deletes the caller's
\* entry and nothing else and reports whether the entry was stored: true for a
\* present identity, false, with the collection unchanged, for an absent one.
RemoveIdempotent ==
    [][(SaveStep(0) /\ slot[0].req.kind = "logout")
       => /\ kvPlayers' = MapDelete(kvPlayers, {slot[0].req.user})
          /\ slot[0].removed = (slot[0].req.user \in DOMAIN kvPlayers)]_vars

\* ---------------------------------------------------------------------- C15
\* C15: a stored record of u1 that is older than the timeout, u1 sending no
\* further upsert, is eventually absent from the stored collection, whatever
\* the upserts of u2 do meanwhile.
StaleEventuallyRemoved ==
    ("u1" \in DOMAIN kvPlayers /\ now - kvPlayers["u1"].lastUpdate > PLAYER_TIMEOUT)
    ~> ("u1" \notin DOMAIN kvPlayers)

\* A sweep has read u1's record, older than the timeout, next to u2's, and its
\* write has landed: u1 is gone and u2 is stored.
StaleRemovedWitness ==
    /\ now = PLAYER_TIMEOUT + 1
    /\ slot[1].pc = "stats" /\ slot[1].req.kind = "cleanup"
    /\ slot[1].removedCount = 1
    /\ {GetOk, SetOk} \subseteq slot[1].log
    /\ DOMAIN kvPlayers = {"u2"}

\* ---------------------------------------------------------------------- C16
\* A position update of user u is unresolved in slot h.
InFlight(h, u) ==
    /\ slot[h].req.kind = "position" /\ slot[h].req.user = u
    /\ slot[h].pc \in {"get", "modify", "save"}

\* C16: at most one position update of a client is unresolved at any time.
SingleFlight == Cardinality({h \in Handlers : InFlight(h, "u1")}) <= 1

\* ---------------------------------------------------------------------- C17
\* The request in slot h is an authenticated append or upsert, its body and
\* identity read without error, whose body does not pass validation.
InvalidInput(h) ==
    /\ slot[h].req.user # NoUser /\ slot[h].req.fault = "none"
    /\ \/ /\ slot[h].req.kind = "chat"
          /\ ~(slot[h].req.body.message.str /\ slot[h].req.body.message.len > 0)
       \/ /\ slot[h].req.kind = "position"
          /\ ~(slot[h].req.body.x.num /\ slot[h].req.body.y.num
               /\ slot[h].req.body.emoji # "")

\* C17: an append whose message is missing, not a string or empty once trimmed,
\* and an upsert whose x or y is not a number or whose avatar is empty, are
\* answered 400 without any call on the store.
InvalidRejected ==
    \A h \in Handlers :
       (slot[h].req.kind \in {"chat", "position"} /\ InvalidInput(h))
       => slot[h].pc = "done" /\ slot[h].resp.status = 400 /\ slot[h].log = {}

\* An append of white space only has been answered 400, the stored log and the
\* stored players as they were.
InvalidRejectedWitness ==
    /\ slot[0].pc = "done" /\ slot[0].req.kind = "chat"
    /\ slot[0].req.body.message = Str(3, 0)
    /\ slot[0].resp.status = 400
    /\ kvChat = Filled(MAX_CHAT_HISTORY - 1)
    /\ "u1" \in DOMAIN kvPlayers

\* ---------------------------------------------------------------------- C18
\* C18: every stored message has a body of 1 to 200 characters, and an append
\* of a longer message is answered with success, not rejected.
BodyCapped ==
    /\ \A i \in 1..Len(kvChat) : kvChat[i].message \in 1..200
    /\ \A h \in Handlers :
         (/\ slot[h].pc = "done" /\ slot[h].req.kind = "chat"
          /\ slot[h].req.user # NoUser /\ slot[h].req.fault = "none"
          /\ slot[h].req.body.message.str /\ slot[h].req.body.message.len > 200)
         => slot[h].resp.status = 200

\* An append of 250 characters between white space has been stored, cut to 200.
BodyCappedWitness ==
    /\ slot[0].pc = "done" /\ slot[0].req.kind = "chat"
    /\ slot[0].req.body.message = Str(2, 250)
    /\ slot[0].resp.status = 200
    /\ {ChatGetOk, ChatSetOk} \subseteq slot[0].log
    /\ Len(kvChat) > 0 /\ kvChat[Len(kvChat)].message = 200

\* ---------------------------------------------------------------------- C19
\* C19: no two stored messages have the same id.
UniqueIds ==
    \A i, j \in 1..Len(kvChat) : i # j => kvChat[i].id # kvChat[j].id

\* ---------------------------------------------------------------------- C20
\* C20: a health check during which a get on the store failed answers with
\* status "error".
HealthDegrades ==
    \A h \in Handlers :
       (/\ slot[h].pc = "done" /\ slot[h].req.kind = "health"
        /\ \E c \in slot[h].log : c[1] = "get" /\ ~c[3])
       => slot[h].resp.health = "error"

\* ---------------------------------------------------------------------- C21
\* C21: no endpoint of the worker makes a get or a set on the store, or answers
\* with success, for a request that carries no authenticated user.
NoEndpointServesAnonymous ==
    \A h \in Handlers :
       (slot[h].req.kind # "none" /\ slot[h].req.user = NoUser)
       => /\ \A c \in slot[h].log : c[1] \notin {"get", "set"}
          /\ slot[h].resp.status # 200

\* ---------------------------------------------------------------------- C22
ReadKinds == {"players", "chatlist", "stats", "health"}

\* C22 as stated: list, tail and the stats aggregation make no set on any key,
\* so the only set a request makes is the write of the collection it modifies.
OnlyCollectionWritesSet ==
    \A h \in Handlers : \A c \in slot[h].log :
       c[1] = "set" =>
          \/ slot[h].req.kind \in {"position", "cleanup", "logout"} /\ c[2] = KV_PLAYERS_KEY
          \/ slot[h].req.kind = "chat" /\ c[2] = KV_CHAT_KEY

\* C22, amended: a step of GET /api/players, GET /api/chat, GET /api/stats or
\* GET /health changes no key of the store and its calls are gets; the stats
\* derivation that a sweep runs before it answers leaves the two collections
\* alone but makes a set on the stats key, which stores the instant of the
\* derivation when it succeeds.
ReadsSetNothingStatsSetItsKey ==
    [][\A h \in Handlers :
          /\ (slot[h].req.kind \in ReadKinds /\ slot'[h] # slot[h])
             => /\ UNCHANGED <<kvPlayers, kvChat, kvStats>>
                /\ \A c \in slot'[h].log : c[1] = "get"
          /\ (slot[h].pc = "stats" /\ slot'[h].pc = "done")
             => /\ UNCHANGED <<kvPlayers, kvChat>>
                /\ \E ok \in BOOLEAN : <<"set", KV_STATS_KEY, ok>> \in slot'[h].log
                /\ <<"set", KV_STATS_KEY, TRUE>> \in slot'[h].log
                   => kvStats'.lastUpdate = now]_vars

\* A sweep has returned, its stats derivation has stored the counts of a chat
\* log of MAX_CHAT_DISPLAY messages under the stats key.
StatsSetWitness ==
    /\ slot[0].pc = "done" /\ slot[0].req.kind = "cleanup"
    /\ <<"set", KV_STATS_KEY, TRUE>> \in slot[0].log
    /\ kvStats.lastUpdate = now
    /\ kvStats.totalMessages = MAX_CHAT_DISPLAY

\* ---------------------------------------------------------------------- C23
\* C23: GET /api/chat answers with the last min(MAX_CHAT_DISPLAY, n) messages
\* of the n stored ones, in their stored order, and totalMessages = n; when the
\* get of the store fails, GET /api/chat and GET /api/players still answer 200,
\* with an empty list.
TailReturnsLast ==
    [][/\ (slot[0].pc = "get" /\ slot[0].req.kind = "chatlist" /\ slot'[0].pc = "done")
          => LET r == slot'[0].resp
                 n == Len(kvChat)
                 k == IF n < MAX_CHAT_DISPLAY THEN n ELSE MAX_CHAT_DISPLAY
             IN /\ r.status = 200
                /\ IF <<"get", KV_CHAT_KEY, TRUE>> \in slot'[0].log
                     THEN /\ Len(r.messages) = k
                          /\ \A i \in 1..k : r.messages[i] = kvChat[n - k + i]
                          /\ r.totalMessages = n
                     ELSE /\ r.messages = <<>>
                          /\ r.totalMessages = 0
       /\ (slot[0].pc = "get" /\ slot[0].req.kind = "players" /\ slot'[0].pc = "done"
           /\ <<"get", KV_PLAYERS_KEY, FALSE>> \in slot'[0].log)
          => /\ slot'[0].resp.status = 200
             /\ slot'[0].resp.players = EmptyMap
             /\ slot'[0].resp.count = 0]_vars

\* GET /api/chat has answered on a full log: MAX_CHAT_DISPLAY messages of
\* MAX_CHAT_HISTORY, the first of them the one stored just after the middle.
TailWitness ==
    /\ slot[0].pc = "done" /\ slot[0].req.kind = "chatlist"
    /\ <<"get", KV_CHAT_KEY, TRUE>> \in slot[0].log
    /\ Len(kvChat) = MAX_CHAT_HISTORY
    /\ slot[0].resp.totalMessages = MAX_CHAT_HISTORY
    /\ Len(slot[0].resp.messages) = MAX_CHAT_DISPLAY
    /\ slot[0].resp.messages[1] = kvChat[MAX_CHAT_HISTORY - MAX_CHAT_DISPLAY + 1]
    /\ slot[0].resp.messages[1] # kvChat[1]

\* ---------------------------------------------------------------------- C24
\* C24: an upsert, a remove or a sweep during which the get of the collection
\* failed leaves the stored record of every identity it does not target as it
\* was: the caller for an upsert or a remove, the entries older than the
\* timeout for a sweep.
FailedReadKeepsOthers ==
    [][(SaveStep(0) /\ GetFailed \in slot[0].log)
       => \A a \in DOMAIN kvPlayers :
             LET targeted ==
                   IF slot[0].req.kind = "cleanup"
                   THEN slot[0].now - kvPlayers[a].lastUpdate > PLAYER_TIMEOUT
                   ELSE a = slot[0].req.user
             IN ~targeted => ~Discarded(a)]_vars

\* ---------------------------------------------------------------------- C25
\* C25 as stated: once the remove of an identity has written the collection
\* and returned, the write of an upsert for another identity does not bring
\* the removed identity back into the stored collection.
RemovedStaysAbsent ==
    [][(/\ SaveStep(2)
        /\ landed[2].kind = "logout" /\ landed[2].user # slot[2].req.user
        /\ ~(slot[1].req.kind = "logout" /\ slot[1].pc # "idle")
        /\ landed[2].user \notin DOMAIN kvPlayers)
       => landed[2].user \notin DOMAIN kvPlayers']_vars

\* C25, amended: a remove whose set succeeds leaves its identity absent from
\* the stored collection; an absent identity enters the stored collection
\* only by the write of its own upsert, or by the write of a handler that had
\* read the collection before a later write landed and stores its snapshot.
RemovedReturnsOnlyIfOvertaken ==
    [][/\ (SaveStep(1) /\ slot[1].req.kind = "logout" /\ SetOk \in slot'[1].log)
          => slot[1].req.user \notin DOMAIN kvPlayers'
       /\ \A h \in Concurrent :
             SaveStep(h)
             => \A u \in DOMAIN kvPlayers' \ DOMAIN kvPlayers :
                   \/ slot[h].req.kind = "position" /\ slot[h].req.user = u
                   \/ landed[h] # NoWrite]_vars

\* The remove of an identity has landed and returned, and the upsert of the
\* other identity, which had read before, has written it back.
RemovedReturnsWitness ==
    /\ slot[2].pc = "done" /\ slot[2].req.kind = "position"
    /\ slot[2].log = {GetOk, SetOk}
    /\ landed[2].kind = "logout" /\ landed[2].user # slot[2].req.user
    /\ slot[1].pc = "idle"
    /\ landed[2].user \in DOMAIN kvPlayers

\* ---------------------------------------------------------------------- C26
\* C26 as stated: whatever the interleaving of appends, the timestamps of the
\* stored messages never decrease along the stored sequence.
TimestampsNeverDecrease ==
    \A i \in 1..(Len(kvChat) - 1) : kvChat[i].timestamp <= kvChat[i + 1].timestamp

\* C26, amended: the write of an append stores its message last, and the
\* message is not older than any message stored before it, provided no other
\* append's write landed between the building of the message and its
\* handler's read of the stored sequence.
NotOlderUnlessBehind ==
    [][\A h \in Concurrent :
          (SaveStep(h) /\ slot[h].req.kind = "chat" /\ ~slot[h].behind
           /\ kvChat' # kvChat)
          => LET n == Len(kvChat')
             IN /\ kvChat'[n] = slot[h].chatMessage
                /\ \A i \in 1..n : kvChat'[i].timestamp <= kvChat'[n].timestamp]_vars

\* An append that no write came in front of has stored a message built at a
\* later instant than the one stored first, while the other handler is busy.
NotOlderWitness ==
    /\ slot[2].pc = "done" /\ slot[2].req.kind = "chat" /\ ~slot[2].behind
    /\ ChatSetOk \in slot[2].log
    /\ slot[1].pc # "idle"
    /\ Len(kvChat) >= 2
    /\ kvChat[Len(kvChat)].timestamp > kvChat[1].timestamp

\* ---------------------------------------------------------------------- C27
\* C27: the client's playerPosition starts at (250, 250) and stays within
\* [PLAYER_SIZE/2, GRID_SIZE - PLAYER_SIZE/2] on both axes; a key press changes
\* at most one coordinate, by at most MOVE_SPEED; and while the game has not
\* started a key press changes nothing.
ClientStaysOnGrid ==
    /\ [](/\ client.playerPosition.x \in 10..490
          /\ client.playerPosition.y \in 10..490
          /\ ~client.gameStarted => client.playerPosition = [x |-> 250, y |-> 250])
    /\ [][LET p == client.playerPosition
              q == client'.playerPosition
          IN /\ p.x = q.x \/ p.y = q.y
             /\ p.x - q.x \in -20..20
             /\ p.y - q.y \in -20..20
             /\ ~client'.gameStarted => UNCHANGED vars]_vars

\* The game has started and the client has been moved into a corner of the
\* grid, where two of the clamps have acted.
ClientInCornerWitness ==
    /\ client.gameStarted
    /\ client.playerPosition = [x |-> 10, y |-> 490]

\* ---------------------------------------------------------------------- C28
\* C28: the chat pane holds at most 50 message elements, no server message id
\* twice, and the server messages it holds stand in the pane in the order in
\* which the server's sequence holds them.
PaneFollowsServer ==
    LET pane == client.pane
        At(id) == {i \in 1..Len(pane) : pane[i] = id}
        ids == {pane[i] : i \in 1..Len(pane)} \ {NoId}
    IN /\ Len(pane) <= 50
       /\ \A id \in ids : Cardinality(At(id)) <= 1
       /\ \A a, b \in 1..Len(kvChat) :
             a < b => \A i \in At(kvChat[a].id), j \in At(kvChat[b].id) : i < j

====
